---- MODULE Spec2Model ----
(***************************************************************************)
(* Model of the manga reader client (src/src/bin/client.rs) together with  *)
(* the page server it talks to (src/src/bin/server.rs).                    *)
(*                                                                         *)
(* The state owner is iced's single-threaded update loop: every message    *)
(* (GetClient, GetInfo, GetImage, ChangePage, ChangeImage) is one atomic    *)
(* action.  Every Command::perform future is an independent task: it       *)
(* waits for the tokio mutex around the client ("pending"), issues its     *)
(* call while holding the mutex ("calling"), and then either delivers its  *)
(* message ("ready", mutex released), panics on the unwrap of a failed     *)
(* call (the task disappears, mutex released), or never returns ("hung",   *)
(* mutex kept).  A page's image bytes are modelled by the page index the   *)
(* server read them from.                                                  *)
(***************************************************************************)
EXTENDS Integers, Sequences, FiniteSets, TLC

\* ------------------------------------------------------------------ bounds
\* Largest page count (MangaInfo.pages) the server may announce.
MaxPages == 5

\* Largest number of scroll-dispatched page fetches alive at the same time.
MaxInFlight == 2

\* ------------------------------------------------------- program constants
BUFFER_LENGTH == 3

image_height == 1764

\* usize and u32 arithmetic wraps in a release build; the word size is scaled
\* down to what the model checker's integers can hold.
WORD == 2 ^ 30

usize_sub(a, b) == (a - b) % WORD

usize_add(a, b) == (a + b) % WORD

as_u32(x) == x % WORD

\* Rust's half-open range a..b: membership and the number of iterations.
range_contains(a, b, x) == a <= x /\ x < b

range_len(a, b) == IF b > a THEN b - a ELSE 0

\* ------------------------------------------------------------------- state
VARIABLES
    current_page,           \* MangaReader.current_page: "Info" or "Image"
    client,                 \* MangaReader.client is Some
    info,                   \* MangaReader.info: NoInfo or the pages field
    image_buffer,           \* MangaReader.image_buffer: sequence of images
    current_image_number,   \* MangaReader.current_image_number
    current_number,         \* MangaReader.current_number
    tasks,                  \* page fetch tasks not yet answered, in dispatch order
    inbox,                  \* GetImage messages sent and not yet processed
    info_task,              \* position of the get_manga_info task
    client_lock,            \* the tokio Mutex around the client is held
    viewport_y,             \* offset carried by the last scroll event
    server_pages            \* pages field of the server's manga.json

vars == <<current_page, client, info, image_buffer, current_image_number,
          current_number, tasks, inbox, info_task, client_lock,
          viewport_y, server_pages>>

NoInfo == -1

NoImage == -1

NoCommand == [fore_and_aft |-> "None"]

PageCounts == 2 .. MaxPages

\* ---------------------------------------------------------- VecDeque steps
pop_back(buf) == IF Len(buf) = 0 THEN buf ELSE SubSeq(buf, 1, Len(buf) - 1)

pop_front(buf) == IF Len(buf) = 0 THEN buf ELSE Tail(buf)

push_back(buf, image) == Append(buf, image)

push_front(buf, image) == <<image>> \o buf

\* Removal of the i-th element of a sequence.
Remove(s, i) == SubSeq(s, 1, i - 1) \o SubSeq(s, i + 1, Len(s))

\* ----------------------------------------------------------- scroll mapper
\* on_scroll rounding to the next page instead of truncating.
on_scroll_RoundsUp(y, height) ==
    IF y = 0 THEN 0 ELSE (y + height - 1) \div height

on_scroll(y, height) == IF y = 0 THEN 0 ELSE y \div height

\* Offsets the scrollable can report: none but 0 while the placeholder is
\* shown (its content is smaller than the viewport), otherwise offsets inside
\* the column of info pages.  Offsets: the top of every page.  FineOffsets:
\* the first, second and last pixel row of every page.
OffsetsAt(rows) ==
    IF Len(image_buffer) < BUFFER_LENGTH \/ info = NoInfo
    THEN {0}
    ELSE {k * image_height + r : k \in 0 .. (info - 1), r \in rows}

Offsets == OffsetsAt({0})

FineOffsets == OffsetsAt({0, 1, image_height - 1})

\* The Command returned by get_manga_image: a task that has not run yet.
get_manga_image(current_number_, number, fore_and_aft) ==
    [current_number |-> current_number_, number |-> number,
     fore_and_aft |-> fore_and_aft, st |-> "pending"]

\* ------------------------------------------------------ prefetch decision
\* ChangeImageCommand with the forward guard one page too wide.
ChangeImageCommand_WideForward(number, anchor, pages) ==
    IF number > anchor /\ range_contains(2, pages, number)
    THEN get_manga_image(number, as_u32(usize_add(number, BUFFER_LENGTH \div 2)),
                         "Aft")
    ELSE IF number < anchor /\ range_contains(1, usize_sub(pages, 2), number)
    THEN get_manga_image(number, as_u32(usize_sub(number, BUFFER_LENGTH \div 2)),
                         "Fore")
    ELSE NoCommand

\* ChangeImageCommand fetching the candidate itself on a forward decision.
ChangeImageCommand_ForwardFetchesCandidate(number, anchor, pages) ==
    IF number > anchor /\ range_contains(2, usize_sub(pages, 1), number)
    THEN get_manga_image(number, as_u32(number), "Aft")
    ELSE IF number < anchor /\ range_contains(1, usize_sub(pages, 2), number)
    THEN get_manga_image(number, as_u32(usize_sub(number, BUFFER_LENGTH \div 2)),
                         "Fore")
    ELSE NoCommand

\* ChangeImageCommand with the forward guard ending one page earlier.
ChangeImageCommand_NarrowForward(number, anchor, pages) ==
    IF number > anchor /\ range_contains(2, usize_sub(pages, 2), number)
    THEN get_manga_image(number, as_u32(usize_add(number, BUFFER_LENGTH \div 2)),
                         "Aft")
    ELSE IF number < anchor /\ range_contains(1, usize_sub(pages, 2), number)
    THEN get_manga_image(number, as_u32(usize_sub(number, BUFFER_LENGTH \div 2)),
                         "Fore")
    ELSE NoCommand

\* ChangeImageCommand with the backward guard ending one page earlier.
ChangeImageCommand_NarrowBackward(number, anchor, pages) ==
    IF number > anchor /\ range_contains(2, usize_sub(pages, 1), number)
    THEN get_manga_image(number, as_u32(usize_add(number, BUFFER_LENGTH \div 2)),
                         "Aft")
    ELSE IF number < anchor /\ range_contains(1, usize_sub(pages, 3), number)
    THEN get_manga_image(number, as_u32(usize_sub(number, BUFFER_LENGTH \div 2)),
                         "Fore")
    ELSE NoCommand

\* The command returned by update for Message::ChangeImage(number) once the
\* early return has been passed.
ChangeImageCommand(number, anchor, pages) ==
    IF number > anchor /\ range_contains(2, usize_sub(pages, 1), number)
    THEN get_manga_image(number, as_u32(usize_add(number, BUFFER_LENGTH \div 2)),
                         "Aft")
    ELSE IF number < anchor /\ range_contains(1, usize_sub(pages, 2), number)
    THEN get_manga_image(number, as_u32(usize_sub(number, BUFFER_LENGTH \div 2)),
                         "Fore")
    ELSE NoCommand

\* GetImageBuffer evicting at the wrong end on a forward completion.
GetImageBuffer_AftPopsBack(buf, fore_and_aft, image) ==
    CASE fore_and_aft = "Fore" -> push_front(pop_back(buf), image)
      [] fore_and_aft = "Middle" -> push_back(buf, image)
      [] fore_and_aft = "Aft" -> push_back(pop_back(buf), image)

\* The buffer after Message::GetImage.
GetImageBuffer(buf, fore_and_aft, image) ==
    CASE fore_and_aft = "Fore" -> push_front(pop_back(buf), image)
      [] fore_and_aft = "Middle" -> push_back(buf, image)
      [] fore_and_aft = "Aft" -> push_back(pop_front(buf), image)

\* ------------------------------------------------------------ view composer
make_space(height) == [kind |-> "Space", image |-> NoImage, height |-> height]

make_image(buf, index, height) ==
    [kind |-> "Image", image |-> buf[index + 1], height |-> height]

Spaces(n, height) == [i \in 1 .. n |-> make_space(height)]

Images(buf, height) ==
    [i \in 1 .. BUFFER_LENGTH |-> make_image(buf, i - 1, height)]

\* image_page with the trailing spacers of the middle case starting one page
\* too early.
image_page_TrailingOffByOne(buf, number, pages, height) ==
    IF Len(buf) < BUFFER_LENGTH
    THEN <<[kind |-> "Space", image |-> NoImage, height |-> 0]>>
    ELSE IF range_contains(0, BUFFER_LENGTH \div 2, number)
    THEN Images(buf, height) \o Spaces(range_len(BUFFER_LENGTH, pages), height)
    ELSE IF range_contains(usize_sub(pages, BUFFER_LENGTH \div 2), pages, number)
    THEN Spaces(range_len(0, usize_sub(pages, BUFFER_LENGTH)), height)
             \o Images(buf, height)
    ELSE Spaces(range_len(0, usize_sub(number, BUFFER_LENGTH \div 2)), height)
             \o Images(buf, height)
             \o Spaces(range_len(usize_add(number, BUFFER_LENGTH \div 2), pages),
                       height)

\* The children of the scrollable column built by image_page.
image_page(buf, number, pages, height) ==
    IF Len(buf) < BUFFER_LENGTH
    THEN <<[kind |-> "Space", image |-> NoImage, height |-> 0]>>
    ELSE IF range_contains(0, BUFFER_LENGTH \div 2, number)
    THEN Images(buf, height) \o Spaces(range_len(BUFFER_LENGTH, pages), height)
    ELSE IF range_contains(usize_sub(pages, BUFFER_LENGTH \div 2), pages, number)
    THEN Spaces(range_len(0, usize_sub(pages, BUFFER_LENGTH)), height)
             \o Images(buf, height)
    ELSE Spaces(range_len(0, usize_sub(number, BUFFER_LENGTH \div 2)), height)
             \o Images(buf, height)
             \o Spaces(range_len(usize_add(number, BUFFER_LENGTH \div 2 + 1), pages),
                       height)

\* The list the reading view shows in the current state.
View == image_page(image_buffer, current_image_number, info, image_height)

\* ------------------------------------------------------------ initial state
Init ==
    /\ current_page = "Info"
    /\ client = FALSE
    /\ info = NoInfo
    /\ image_buffer = <<>>
    /\ current_image_number = 0
    /\ current_number = 0
    /\ tasks = <<>>
    /\ inbox = <<>>
    /\ info_task = "none"
    /\ client_lock = FALSE
    /\ viewport_y = 0
    /\ server_pages \in PageCounts

\* --------------------------------------------------------------- the tasks
\* Scroll-dispatched page fetches that have not been applied yet.
InFlight ==
    Cardinality({i \in 1 .. Len(tasks) : tasks[i].fore_and_aft # "Middle"})
    + Cardinality({i \in 1 .. Len(inbox) : inbox[i].fore_and_aft # "Middle"})

\* Message::GetClient: the connection is stored, the metadata fetch and the
\* BUFFER_LENGTH initial page fetches are dispatched.
GetClient ==
    /\ ~client
    /\ client' = TRUE
    /\ info_task' = "pending"
    /\ tasks' = [index \in 1 .. BUFFER_LENGTH |->
                    get_manga_image(0, as_u32(index - 1), "Middle")]
    /\ UNCHANGED <<current_page, info, image_buffer, current_image_number,
                   current_number, inbox, client_lock, viewport_y, server_pages>>

\* InfoLock without the mutual exclusion.
InfoLock_IgnoresMutex ==
    /\ info_task = "pending"
    /\ info_task' = "calling"
    /\ client_lock' = TRUE
    /\ UNCHANGED <<current_page, client, info, image_buffer, current_image_number,
                   current_number, tasks, inbox, viewport_y, server_pages>>

\* The metadata task acquires the mutex and issues get_manga_info.
InfoLock ==
    /\ info_task = "pending"
    /\ ~client_lock
    /\ info_task' = "calling"
    /\ client_lock' = TRUE
    /\ UNCHANGED <<current_page, client, info, image_buffer, current_image_number,
                   current_number, tasks, inbox, viewport_y, server_pages>>

\* The server answers the metadata call; the guard is dropped.
InfoRespond ==
    /\ info_task = "calling"
    /\ info_task' = "ready"
    /\ client_lock' = FALSE
    /\ UNCHANGED <<current_page, client, info, image_buffer, current_image_number,
                   current_number, tasks, inbox, viewport_y, server_pages>>

\* The metadata call fails: the unwrap panics, the guard is dropped.
InfoFail ==
    /\ info_task = "calling"
    /\ info_task' = "failed"
    /\ client_lock' = FALSE
    /\ UNCHANGED <<current_page, client, info, image_buffer, current_image_number,
                   current_number, tasks, inbox, viewport_y, server_pages>>

\* Message::GetInfo
GetInfo ==
    /\ info_task = "ready"
    /\ info_task' = "done"
    /\ info' = server_pages
    /\ UNCHANGED <<current_page, client, image_buffer, current_image_number,
                   current_number, tasks, inbox, client_lock, viewport_y,
                   server_pages>>

\* CanLock without the mutual exclusion.
CanLock_IgnoresMutex(i) == tasks[i].st = "pending"

\* A page fetch task may take the mutex when it is free.
CanLock(i) == tasks[i].st = "pending" /\ ~client_lock

\* A page fetch task acquires the mutex and issues get_manga_image.
Lock(i) ==
    /\ CanLock(i)
    /\ client_lock' = TRUE
    /\ tasks' = [tasks EXCEPT ![i].st = "calling"]
    /\ UNCHANGED <<current_page, client, info, image_buffer, current_image_number,
                   current_number, inbox, info_task, viewport_y, server_pages>>

\* The server finds assets/images/<number>.jpg and answers with its bytes; the
\* guard is dropped and the GetImage message is sent to the update loop.
Respond(i) ==
    /\ tasks[i].st = "calling"
    /\ range_contains(0, server_pages, tasks[i].number)
    /\ client_lock' = FALSE
    /\ inbox' = Append(inbox, [current_number |-> tasks[i].current_number,
                               fore_and_aft |-> tasks[i].fore_and_aft,
                               image |-> tasks[i].number])
    /\ tasks' = Remove(tasks, i)
    /\ UNCHANGED <<current_page, client, info, image_buffer, current_image_number,
                   current_number, info_task, viewport_y, server_pages>>

\* Fail delivering an empty image in place of the page.
Fail_DeliversPlaceholder(i) ==
    /\ tasks[i].st = "calling"
    /\ client_lock' = FALSE
    /\ inbox' = Append(inbox, [current_number |-> tasks[i].current_number,
                               fore_and_aft |-> tasks[i].fore_and_aft,
                               image |-> NoImage])
    /\ tasks' = Remove(tasks, i)
    /\ UNCHANGED <<current_page, client, info, image_buffer, current_image_number,
                   current_number, info_task, viewport_y, server_pages>>

\* The call fails (no such file on the server, or the transport fails): the
\* unwrap panics inside the task, the guard is dropped, no message is sent.
Fail(i) ==
    /\ tasks[i].st = "calling"
    /\ client_lock' = FALSE
    /\ tasks' = Remove(tasks, i)
    /\ UNCHANGED <<current_page, client, info, image_buffer, current_image_number,
                   current_number, inbox, info_task, viewport_y, server_pages>>

\* The server has no assets/images/<number>.jpg: the call fails.
NotFound(i) ==
    /\ ~range_contains(0, server_pages, tasks[i].number)
    /\ Fail(i)

\* The call never returns: the task keeps awaiting it, holding the guard.
Hang(i) ==
    /\ tasks[i].st = "calling"
    /\ tasks' = [tasks EXCEPT ![i].st = "hung"]
    /\ UNCHANGED <<current_page, client, info, image_buffer, current_image_number,
                   current_number, inbox, info_task, client_lock, viewport_y,
                   server_pages>>

\* GetImage taking the fetched page, not the candidate, as the new anchor.
GetImage_AnchorIsFetchedPage ==
    /\ inbox # <<>>
    /\ image_buffer' = GetImageBuffer(image_buffer, Head(inbox).fore_and_aft,
                                      Head(inbox).image)
    /\ current_image_number' = Head(inbox).image
    /\ inbox' = Tail(inbox)
    /\ UNCHANGED <<current_page, client, info, current_number, tasks, info_task,
                   client_lock, viewport_y, server_pages>>

\* Message::GetImage { current_number, fore_and_aft, image }: the update loop
\* takes the oldest message of its channel.
GetImage ==
    /\ inbox # <<>>
    /\ image_buffer' = GetImageBuffer(image_buffer, Head(inbox).fore_and_aft,
                                      Head(inbox).image)
    /\ current_image_number' = Head(inbox).current_number
    /\ inbox' = Tail(inbox)
    /\ UNCHANGED <<current_page, client, info, current_number, tasks, info_task,
                   client_lock, viewport_y, server_pages>>

\* ChangePage with a "Read Manga" button that is drawn before info arrives.
ChangePage_ButtonWithoutInfo(page) ==
    /\ \/ current_page = "Info" /\ page = "Image"
       \/ current_page = "Image" /\ page = "Info"
    /\ current_page' = page
    /\ UNCHANGED <<client, info, image_buffer, current_image_number,
                   current_number, tasks, inbox, info_task, client_lock,
                   viewport_y, server_pages>>

\* ChangePage that also rewinds the reader's position.
ChangePage_ResetsReader(page) ==
    /\ \/ current_page = "Info" /\ info # NoInfo /\ page = "Image"
       \/ current_page = "Image" /\ page = "Info"
    /\ current_page' = page
    /\ current_number' = 0
    /\ UNCHANGED <<client, info, image_buffer, current_image_number,
                   tasks, inbox, info_task, client_lock, viewport_y,
                   server_pages>>

\* Message::ChangePage(page).  "Read Manga" is drawn by info_page once info is
\* present, "Back Info" by image_page.
ChangePage(page) ==
    /\ \/ current_page = "Info" /\ info # NoInfo /\ page = "Image"
       \/ current_page = "Image" /\ page = "Info"
    /\ current_page' = page
    /\ UNCHANGED <<client, info, image_buffer, current_image_number,
                   current_number, tasks, inbox, info_task, client_lock,
                   viewport_y, server_pages>>

\* ChangeImage without the early return on a repeated number.
ChangeImage_NoEarlyReturn(number) ==
    LET command == ChangeImageCommand(number, current_image_number, info)
    IN /\ current_number' = number
       /\ IF command = NoCommand
          THEN tasks' = tasks
          ELSE /\ InFlight < MaxInFlight
               /\ tasks' = Append(tasks, command)
       /\ UNCHANGED <<current_page, client, info, image_buffer,
                      current_image_number, inbox, info_task, client_lock,
                      server_pages>>

\* Message::ChangeImage(number)
ChangeImage(number) ==
    IF number = current_number
    THEN UNCHANGED <<current_page, client, info, image_buffer,
                     current_image_number, current_number, tasks, inbox,
                     info_task, client_lock, server_pages>>
    ELSE LET command == ChangeImageCommand(number, current_image_number, info)
         IN /\ current_number' = number
            /\ IF command = NoCommand
               THEN tasks' = tasks
               ELSE /\ InFlight < MaxInFlight
                    /\ tasks' = Append(tasks, command)
            /\ UNCHANGED <<current_page, client, info, image_buffer,
                           current_image_number, inbox, info_task, client_lock,
                           server_pages>>

\* The scrollable of image_page reports offset y: on_scroll maps it to a page
\* number and update receives Message::ChangeImage.
Scroll(y) ==
    /\ current_page = "Image"
    /\ client
    /\ info # NoInfo
    /\ viewport_y' = y
    /\ ChangeImage(on_scroll(y, image_height))

\* The update loop and the tasks, with a transport that answers every call.
Next ==
    \/ GetClient
    \/ InfoLock
    \/ InfoRespond
    \/ GetInfo
    \/ \E i \in 1 .. Len(tasks) : Lock(i)
    \/ \E i \in 1 .. Len(tasks) : Respond(i)
    \/ \E i \in 1 .. Len(tasks) : NotFound(i)
    \/ GetImage
    \/ \E page \in {"Info", "Image"} : ChangePage(page)
    \/ \E y \in Offsets : Scroll(y)

Spec == Init /\ [][Next]_vars

\* No task dispatched before task i is still waiting for the mutex.
FirstPending(i) == \A k \in 1 .. (i - 1) : tasks[k].st # "pending"

\* A transport that may fail or never answer; the tasks are granted the mutex
\* in dispatch order.
NextFault ==
    \/ GetClient
    \/ InfoLock
    \/ InfoRespond
    \/ GetInfo
    \/ \E i \in 1 .. Len(tasks) : FirstPending(i) /\ Lock(i)
    \/ \E i \in 1 .. Len(tasks) : Respond(i)
    \/ GetImage
    \/ \E page \in {"Info", "Image"} : ChangePage(page)
    \/ \E y \in Offsets : Scroll(y)
    \/ InfoFail
    \/ \E i \in 1 .. Len(tasks) : Fail(i)
    \/ \E i \in 1 .. Len(tasks) : Hang(i)

FaultSpec == Init /\ [][NextFault]_vars

\* The sequential regime: the tasks take the mutex in dispatch order and a
\* scroll event is processed only when no fetch is outstanding.
Idle == tasks = <<>> /\ inbox = <<>>

NextSeq ==
    \/ GetClient
    \/ InfoLock
    \/ InfoRespond
    \/ GetInfo
    \/ tasks # <<>> /\ Lock(1)
    \/ tasks # <<>> /\ Respond(1)
    \/ tasks # <<>> /\ NotFound(1)
    \/ GetImage
    \/ \E page \in {"Info", "Image"} : ChangePage(page)
    \/ Idle /\ \E y \in FineOffsets : Scroll(y)

SeqSpec == Init /\ [][NextSeq]_vars

\* The scroll event of offset y moves the candidate by at most one page.
SingleStep(y) ==
    LET number == on_scroll(y, image_height)
    IN number - current_number \in {-1, 0, 1}

\* The sequential regime with the reader scrolling one page at a time.
NextStep ==
    \/ GetClient
    \/ InfoLock
    \/ InfoRespond
    \/ GetInfo
    \/ tasks # <<>> /\ Lock(1)
    \/ tasks # <<>> /\ Respond(1)
    \/ tasks # <<>> /\ NotFound(1)
    \/ GetImage
    \/ \E page \in {"Info", "Image"} : ChangePage(page)
    \/ Idle /\ \E y \in FineOffsets : SingleStep(y) /\ Scroll(y)

StepSpec == Init /\ [][NextStep]_vars

\* The reader scrolls one page at a time, also while fetches are outstanding;
\* the tasks are granted the mutex in dispatch order, so completions are
\* applied in the order the fetches were dispatched.
NextFifoStep ==
    \/ GetClient
    \/ InfoLock
    \/ InfoRespond
    \/ GetInfo
    \/ \E i \in 1 .. Len(tasks) : FirstPending(i) /\ Lock(i)
    \/ \E i \in 1 .. Len(tasks) : Respond(i)
    \/ \E i \in 1 .. Len(tasks) : NotFound(i)
    \/ GetImage
    \/ \E page \in {"Info", "Image"} : ChangePage(page)
    \/ \E y \in Offsets : SingleStep(y) /\ Scroll(y)

FifoStepSpec == Init /\ [][NextFifoStep]_vars

\* ================================================================== claims
\* The window is full and the document has at least BUFFER_LENGTH pages.
Full == info # NoInfo /\ info >= BUFFER_LENGTH /\ Len(image_buffer) = BUFFER_LENGTH

ImageSlot(page) == [kind |-> "Image", image |-> page, height |-> image_height]

\* C1: once scrolling has stopped and every dispatched page fetch has been
\* applied, the window contains the page of the reader's last scroll candidate
\* and the composed list shows that page at the position of its index.
C1_WindowFollowsReader ==
    (Full /\ Idle) =>
        /\ \E k \in 1 .. BUFFER_LENGTH : image_buffer[k] = current_number
        /\ current_number + 1 <= Len(View)
        /\ View[current_number + 1] = ImageSlot(current_number)

\* C2: with a full window the composed list has one slot per page, exactly
\* BUFFER_LENGTH of them images at consecutive positions, and every slot has
\* height image_height.
C2_ComposedList ==
    Full =>
        LET list == View
        IN /\ Len(list) = info
           /\ \E first \in 1 .. (info - BUFFER_LENGTH + 1) :
                 \A p \in 1 .. Len(list) :
                     (list[p].kind = "Image")
                         <=> (first <= p /\ p < first + BUFFER_LENGTH)
           /\ \A p \in 1 .. Len(list) :
                 /\ list[p].kind \in {"Image", "Space"}
                 /\ list[p].height = image_height

\* C2 witness: the middle case with spacers on both sides of the images.
C2_Witness ==
    /\ Full
    /\ current_page = "Image"
    /\ current_image_number >= 2
    /\ current_image_number + 2 < info

\* C3: in the sequential regime, once the fetch dispatched by ChangeImage(c) has
\* been applied the window holds exactly the pages c-1, c, c+1 in that order.
\* (Only a scroll-dispatched completion leaves a non-zero current_image_number.)
C3_WindowAroundCandidate ==
    (Full /\ Idle /\ current_image_number # 0) =>
        image_buffer = <<current_image_number - 1, current_image_number,
                         current_image_number + 1>>

\* The step is the processing of the oldest GetImage message, of direction d.
Applied(d) ==
    /\ inbox # <<>>
    /\ inbox' = Tail(inbox)
    /\ Head(inbox).fore_and_aft = d

\* C4: the window never holds more than BUFFER_LENGTH pages; once full it stays
\* full; a forward completion removes exactly the front page and appends the
\* new one at the back, a backward completion removes exactly the back page and
\* inserts the new one at the front.
C4_WindowDiscipline ==
    /\ [](Len(image_buffer) <= BUFFER_LENGTH)
    /\ [][Len(image_buffer) = BUFFER_LENGTH
            => Len(image_buffer') = BUFFER_LENGTH]_vars
    /\ [][(Len(image_buffer) = BUFFER_LENGTH /\ Applied("Aft"))
            => image_buffer' = <<image_buffer[2], image_buffer[3],
                                 Head(inbox).image>>]_vars
    /\ [][(Len(image_buffer) = BUFFER_LENGTH /\ Applied("Fore"))
            => image_buffer' = <<Head(inbox).image, image_buffer[1],
                                 image_buffer[2]>>]_vars

\* C4 witness: a full window with a forward and a backward completion waiting
\* to be applied.
C4_Witness ==
    /\ Len(image_buffer) = BUFFER_LENGTH
    /\ \E i, j \in 1 .. Len(inbox) :
          inbox[i].fore_and_aft = "Aft" /\ inbox[j].fore_and_aft = "Fore"

\* C5: every page fetch dispatched for a scroll event requests an index of the
\* document, 0 <= index < page_count.
C5_FetchInRange ==
    \A i \in 1 .. Len(tasks) :
        tasks[i].fore_and_aft # "Middle"
            => (0 <= tasks[i].number /\ tasks[i].number < info)

\* C5 witness: a backward fetch of page 0 and a forward fetch of the last page
\* are outstanding.
C5_Witness ==
    /\ info # NoInfo
    /\ \E i, j \in 1 .. Len(tasks) :
          /\ tasks[i].fore_and_aft = "Fore" /\ tasks[i].number = 0
          /\ tasks[j].fore_and_aft = "Aft" /\ tasks[j].number = info - 1

\* C6: a ChangeImage(c) processed when the last processed candidate is already
\* c dispatches no fetch and changes nothing, whatever is in flight.
C6_RepeatedCandidateIsNoOp ==
    [][\A c \in 0 .. MaxPages :
          (current_number = c /\ ChangeImage(c))
              => UNCHANGED <<image_buffer, current_number, current_image_number,
                             current_page, tasks, inbox, client, info>>]_vars

\* C6 witness: the reading view is shown and the fetch dispatched for the
\* current candidate is still outstanding, so a controller that decided again
\* would dispatch it a second time.
C6_Witness ==
    /\ current_page = "Image"
    /\ Full
    /\ InFlight < MaxInFlight
    /\ \E i \in 1 .. Len(tasks) :
          /\ tasks[i].fore_and_aft # "Middle"
          /\ tasks[i].current_number = current_number
    /\ ChangeImageCommand(current_number, current_image_number, info) # NoCommand

Hung(j) == j \in 1 .. Len(tasks) /\ tasks[j].st = "hung"

\* C7 as claimed: a page fetch that never returns stalls only itself, so a
\* fetch dispatched after it can still take the connection and complete.
C7_HungFetchStallsOnlyItself ==
    \A j \in 1 .. Len(tasks) : \A i \in (j + 1) .. Len(tasks) :
        (Hung(j) /\ tasks[i].st = "pending") => ENABLED Lock(i)

\* C7 as amended: a page fetch that never returns keeps the connection mutex,
\* so no outstanding fetch acquires it, answers or delivers a message any more;
\* messages already delivered are still applied and the update loop still
\* processes scroll events and dispatches new fetches.
C7_HungFetchKeepsMutex ==
    /\ [][(\E j \in 1 .. Len(tasks) : Hung(j))
            => /\ client_lock'
               /\ Len(inbox') <= Len(inbox)
               /\ Len(tasks') >= Len(tasks)
               /\ \A i \in 1 .. Len(tasks) : tasks'[i] = tasks[i]]_vars
    /\ []((\E j \in 1 .. Len(tasks) : Hung(j)) /\ inbox # <<>>
            => ENABLED GetImage)
    /\ []((\E j \in 1 .. Len(tasks) : Hung(j)) /\ current_page = "Image"
              /\ InFlight < MaxInFlight
            => \A y \in Offsets : ENABLED Scroll(y))

\* C7 witness: in the reading view, a fetch hangs and a fetch dispatched after
\* it is waiting for the mutex.
C7_Witness ==
    /\ current_page = "Image"
    /\ Full
    /\ \E j \in 1 .. Len(tasks) : \E i \in (j + 1) .. Len(tasks) :
          Hung(j) /\ tasks[i].st = "pending"

\* C8: whenever the reader's candidate is one of the last two pages and no
\* fetch is in flight, the composed list is page_count - BUFFER_LENGTH spacers
\* followed by the window images, with no trailing spacer.
C8_NearEndLayout ==
    (Full /\ Idle /\ current_number \in {info - 2, info - 1}) =>
        View = Spaces(info - BUFFER_LENGTH, image_height)
                   \o Images(image_buffer, image_height)

\* C9: the scroll mapper maps offset 0 to page 0 and any other offset y to
\* floor(y / image_height), and it is monotonic in the offset.
C9_ScrollMapper ==
    /\ [](viewport_y = 0 => current_number = 0)
    /\ [](/\ current_number * image_height <= viewport_y
          /\ viewport_y < (current_number + 1) * image_height)
    /\ [][viewport_y <= viewport_y' => current_number <= current_number']_vars

\* C9 witness: the last pixel row of a page other than the first was mapped.
C9_Witness ==
    /\ current_number >= 1
    /\ viewport_y = current_number * image_height + image_height - 1

\* C10: a step that switches the view changes nothing but current_page, and no
\* step that applies a page, stores the metadata or processes a candidate
\* switches the view.
C10_SwitchViewFrame ==
    /\ [][current_page' # current_page
            => UNCHANGED <<client, info, image_buffer, current_image_number,
                           current_number, tasks, inbox, info_task, client_lock,
                           viewport_y>>]_vars
    /\ [][(\/ image_buffer' # image_buffer
           \/ current_image_number' # current_image_number
           \/ info' # info
           \/ current_number' # current_number
           \/ Len(tasks') > Len(tasks))
            => current_page' = current_page]_vars

\* C10 witness: the reader went back to the metadata view while a page fetch
\* dispatched by a scroll event was still outstanding.
C10_Witness ==
    /\ current_page = "Info"
    /\ current_number # 0
    /\ InFlight > 0

\* The step dispatches one page fetch, of direction d.
Dispatched(d) ==
    /\ Len(tasks') = Len(tasks) + 1
    /\ tasks'[Len(tasks')].fore_and_aft = d

\* The step processes a scroll event whose candidate differs from the last
\* processed one; the candidate is then current_number'.
NewCandidate == current_number' # current_number

\* What a forward decision dispatches and how its completion is applied.
ForwardEffect ==
    /\ Dispatched("Aft")
        => /\ tasks'[Len(tasks')].number = current_number' + 1
           /\ tasks'[Len(tasks')].current_number = current_number'
    /\ (Len(image_buffer) = BUFFER_LENGTH /\ Applied("Aft"))
        => image_buffer' = Tail(image_buffer) \o <<Head(inbox).image>>

\* What a backward decision dispatches and how its completion is applied.
BackwardEffect ==
    /\ Dispatched("Fore")
        => /\ tasks'[Len(tasks')].number = current_number' - 1
           /\ tasks'[Len(tasks')].current_number = current_number'
    /\ (Len(image_buffer) = BUFFER_LENGTH /\ Applied("Fore"))
        => image_buffer' = <<Head(inbox).image>>
                               \o SubSeq(image_buffer, 1, BUFFER_LENGTH - 1)

\* C11 as claimed: a scroll event with a new candidate dispatches a forward
\* fetch exactly when candidate > anchor and 2 <= candidate < page_count - 2;
\* the fetch targets candidate + 1 and is applied by evicting the front and
\* appending at the back.
C11_ForwardGuardAsClaimed ==
    [][/\ NewCandidate
          => (Dispatched("Aft")
                <=> /\ current_number' > current_image_number
                    /\ 2 <= current_number'
                    /\ current_number' < info - 2)
       /\ ForwardEffect]_vars

\* C11 as amended: the same with the guard of the code,
\* 2 <= candidate < page_count - 1, so that candidate page_count - 2 does
\* dispatch the fetch of the last page.
C11_ForwardGuard ==
    [][/\ NewCandidate
          => (Dispatched("Aft")
                <=> /\ current_number' > current_image_number
                    /\ 2 <= current_number'
                    /\ current_number' < info - 1)
       /\ ForwardEffect]_vars

\* C11 witness: the forward fetch dispatched for candidate page_count - 2, the
\* fetch of the last page, is outstanding.
C11_Witness ==
    /\ Full
    /\ \E i \in 1 .. Len(tasks) :
          /\ tasks[i].fore_and_aft = "Aft"
          /\ tasks[i].current_number = info - 2
          /\ tasks[i].number = info - 1

\* C12 as claimed: a scroll event with a new candidate dispatches a backward
\* fetch exactly when candidate < anchor and 1 <= candidate < page_count - 3;
\* the fetch targets candidate - 1 and is applied by evicting the back and
\* inserting at the front.
C12_BackwardGuardAsClaimed ==
    [][/\ NewCandidate
          => (Dispatched("Fore")
                <=> /\ current_number' < current_image_number
                    /\ 1 <= current_number'
                    /\ current_number' < info - 3)
       /\ BackwardEffect]_vars

\* C12 as amended: the same with the guard of the code,
\* 1 <= candidate < page_count - 2, so that candidate page_count - 3 does
\* dispatch a backward fetch when the anchor is beyond it; candidate 0 never
\* dispatches one.
C12_BackwardGuard ==
    [][/\ NewCandidate
          => (Dispatched("Fore")
                <=> /\ current_number' < current_image_number
                    /\ 1 <= current_number'
                    /\ current_number' < info - 2)
       /\ BackwardEffect]_vars

\* C12 witness: the backward fetch dispatched for candidate page_count - 3 is
\* outstanding, and the reader has since scrolled to page 0 from a non-zero
\* anchor without a fetch being dispatched for it.
C12_Witness ==
    /\ Full
    /\ current_number = 0
    /\ current_image_number > 0
    /\ \E i \in 1 .. Len(tasks) :
          /\ tasks[i].fore_and_aft = "Fore"
          /\ tasks[i].current_number = info - 3
          /\ tasks[i].number = info - 4
    /\ \A i \in 1 .. Len(tasks) : tasks[i].current_number # 0

\* A fetch dispatched for candidate c has not been applied yet.
OutstandingFor(c) ==
    \/ \E i \in 1 .. Len(tasks) :
          tasks[i].fore_and_aft # "Middle" /\ tasks[i].current_number = c
    \/ \E i \in 1 .. Len(inbox) :
          inbox[i].fore_and_aft # "Middle" /\ inbox[i].current_number = c

\* C13: when a scroll event with candidate c2 is processed while the fetch
\* dispatched for the previous candidate c1 has not been applied, the direction
\* decision compares c2 against c1 (current_number), not against the anchor
\* that was current before c1.
C13_DecisionAgainstLastCandidate ==
    [][(NewCandidate /\ OutstandingFor(current_number))
          => /\ Dispatched("Aft")
                 <=> /\ current_number' > current_number
                     /\ 2 <= current_number'
                     /\ current_number' < info - 1
             /\ Dispatched("Fore")
                 <=> /\ current_number' < current_number
                     /\ 1 <= current_number'
                     /\ current_number' < info - 2]_vars

\* C14: once the initial fill has been applied (and no scroll fetch yet, which
\* is when current_image_number is still 0), slot i of the window holds page i.
C14_InitialFillInOrder ==
    (Len(image_buffer) = BUFFER_LENGTH /\ current_image_number = 0)
        => image_buffer = <<0, 1, 2>>

\* Remote calls in progress on the connection.
CallsInProgress ==
    Cardinality({i \in 1 .. Len(tasks) : tasks[i].st \in {"calling", "hung"}})
    + (IF info_task = "calling" THEN 1 ELSE 0)

\* C15: at most one remote call is in progress on the connection at any time,
\* and the mutex is held exactly while a call is in progress.
C15_OneCallAtATime ==
    /\ CallsInProgress <= 1
    /\ client_lock <=> CallsInProgress = 1

\* C15 witness: a page fetch is calling while the metadata fetch and two other
\* page fetches wait for the mutex.
C15_Witness ==
    /\ info_task = "pending"
    /\ Cardinality({i \in 1 .. Len(tasks) : tasks[i].st = "calling"}) = 1
    /\ Cardinality({i \in 1 .. Len(tasks) : tasks[i].st = "pending"}) = 2

\* C16: a page fetch whose call ends either delivers the page the server holds
\* for its index or delivers nothing; it releases the mutex and leaves the
\* window and its anchor unchanged; a call for an index the server does not
\* hold delivers nothing; nothing but pages of the server enters the window,
\* and no fetch is dispatched in place of a failed one.
C16_FailedFetchLeavesNoTrace ==
    /\ [][\A i \in 1 .. Len(tasks) :
            (tasks[i].st = "calling" /\ tasks' = Remove(tasks, i))
                => /\ ~client_lock'
                   /\ image_buffer' = image_buffer
                   /\ current_image_number' = current_image_number
                   /\ \/ inbox' = inbox
                      \/ /\ range_contains(0, server_pages, tasks[i].number)
                         /\ inbox' = Append(inbox,
                                [current_number |-> tasks[i].current_number,
                                 fore_and_aft |-> tasks[i].fore_and_aft,
                                 image |-> tasks[i].number])]_vars
    /\ [](\A k \in 1 .. Len(image_buffer) :
             range_contains(0, server_pages, image_buffer[k]))

\* C16 witness: the fetch dispatched for candidate 2 from anchor 0 has failed:
\* nothing is outstanding, the window and the anchor are those of the initial
\* fill and the mutex is free.
C16_Witness ==
    /\ Full
    /\ info >= 4
    /\ Idle
    /\ ~client_lock
    /\ current_number = 2
    /\ current_image_number = 0
    /\ image_buffer = <<0, 1, 2>>

\* The window holds three consecutive pages in increasing order.
Contiguous ==
    image_buffer = <<image_buffer[1], image_buffer[1] + 1, image_buffer[1] + 2>>

\* C17: with the initial fill in index order, the reader scrolling one page at
\* a time and every fetch applied before the next scroll event, a full window
\* holds three consecutive pages in increasing order, every image of the
\* composed list is the page of its position, and the reader's candidate is
\* one of the three buffered pages.
C17_WindowTracksReader ==
    Full =>
        LET list == View
        IN /\ Contiguous
           /\ \A p \in 1 .. Len(list) :
                 list[p].kind = "Image" => list[p].image = p - 1
           /\ \E k \in 1 .. BUFFER_LENGTH : image_buffer[k] = current_number

\* C17 witness: the reader has walked to the last page of a document of at
\* least 5 pages and the window is the last three pages.
C17_Witness ==
    /\ Full
    /\ Idle
    /\ info >= 5
    /\ current_number = info - 1
    /\ image_buffer = <<info - 3, info - 2, info - 1>>

\* C18: with the reader scrolling one page at a time and completions applied in
\* dispatch order, a full window holds three consecutive pages in increasing
\* order, also when scroll events are processed while a fetch is in flight.
C18_ContiguousUnderOverlap ==
    Full => Contiguous

\* C19: the composer's anchor is 0 until a guarded candidate replaces it, so
\* for page_count >= 3 it lies in [0, page_count - 2] and the near-end branch
\* of image_page (anchor in [page_count - 1, page_count)) is never taken.
C19_AnchorBelowLastPage ==
    /\ info = NoInfo => current_image_number = 0
    /\ (info # NoInfo /\ info >= BUFFER_LENGTH) =>
          /\ current_image_number \in 0 .. info - 2
          /\ \/ current_image_number = 0
             \/ ChangeImageCommand(current_image_number, 0, info) # NoCommand
             \/ ChangeImageCommand(current_image_number, info, info) # NoCommand
          /\ ~ range_contains(usize_sub(info, 1), info, current_image_number)

\* C19 witness: the anchor has reached its largest value, page_count - 2, with
\* the reader on the last page.
C19_Witness ==
    /\ Full
    /\ info >= 4
    /\ current_image_number = info - 2
    /\ current_number = info - 1
    /\ inbox = <<>>

\* C20: the reading view is shown only once client and info have been
\* received, so the unwraps in ChangeImage and image_page succeed; info is
\* received only after client, and neither is ever cleared or replaced.
C20_UnwrapsNeverFail ==
    /\ [](current_page = "Image" => (client /\ info # NoInfo))
    /\ [](info # NoInfo => client)
    /\ [][client => client']_vars
    /\ [][info # NoInfo => info' = info]_vars

\* C20 witness: the reading view is shown with a full window and a scroll
\* event has been processed while a fetch was still to be applied.
C20_Witness ==
    /\ current_page = "Image"
    /\ Full
    /\ current_number # 0
    /\ current_number # current_image_number
    /\ inbox # <<>>

====
